---------------------------- MODULE Spec2Model ----------------------------
(***************************************************************************)
(* A model of src/src/main.py: the export of one Mochi deck to a text file. *)
(*                                                                         *)
(*   get_deck_id          the paginated, retried lookup of a deck id       *)
(*   get_cards            the paginated, retried download of the cards     *)
(*   parse_card           the extraction of one record from one card       *)
(*   write_vocab_to_file  the serialisation of the valid records           *)
(*   main                 the run: configuration, the two fetches, the     *)
(*                        writer, the catch-all and the exit status        *)
(*                                                                         *)
(* Strings are sequences of characters (one-character TLA+ strings, and a  *)
(* few multi-character tokens where the code treats a run of characters as *)
(* a unit), so that lower(), the regular expressions and the line format   *)
(* are computed, not assumed.                                              *)
(***************************************************************************)
EXTENDS Integers, Sequences, FiniteSets, TLC

(***************************************************************************)
(* Bounds of the model.                                                    *)
(***************************************************************************)
\* pages of a decks listing
MaxDeckPages == 2
\* decks on one page of the listing
MaxDeckDocs == 2
\* answered requests followed in one run of get_deck_id (its loop need not end)
MaxFetches == 3
\* pages of a cards listing
MaxCardPages == 3
\* cards on one page of the listing
MaxCardDocs == 2
\* entries of a card's component-cache.pinyin mapping
MaxPinyinEntries == 2
\* entries of a card's fields mapping
MaxFieldEntries == 2
\* cards handed to write_vocab_to_file
MaxCards == 3
\* characters of a field value the hanzi is extracted from
MaxHanziLen == 3
\* cards of the deck of a whole run
MaxMainCards == 2

(***************************************************************************)
(* Program constants.                                                      *)
(***************************************************************************)
\* retries = 3
Retries == 3
\* limit=100 of the cards URL
PageLimit == 100

NoBookmark == 0
NoUrl == [path |-> "none"]
NoDeck == 0
NoError == [msg |-> "none"]

\* the process has not ended
NoExit == [ended |-> FALSE, code |-> 0]
\* statuses other than 200 the service may answer with
OtherStatusCodes == {204, 404, 500}

\* 2 ** attempt
RECURSIVE Pow2(_)
Pow2(n) == IF n = 0 THEN 1 ELSE 2 * Pow2(n - 1)

(***************************************************************************)
(* str.lower(), character by character.                                    *)
(***************************************************************************)
Lower(c) ==
    CASE c = "A" -> "a"
      [] c = "B" -> "b"
      [] c = "C" -> "c"
      [] OTHER -> c

LowerStr(s) == [i \in DOMAIN s |-> Lower(s[i])]

\* a case-sensitive comparison, as a bug would have it
NameMatches_CaseSensitive(name, wanted) == name = wanted

\* deck["name"].lower() == deck_name.lower()
NameMatches(name, wanted) == LowerStr(name) = LowerStr(wanted)

(***************************************************************************)
(* The service: a listing is a chain of pages; the bookmark of page p, when *)
(* present, is the cursor of page p + 1.  Every page but the last is        *)
(* non-empty and carries a bookmark; the last one is empty or carries none. *)
(***************************************************************************)
DeckNames == { <<"a", "B">>, <<"c">> }
WantedNames == { <<"A", "b">>, <<"a", "B">>, <<"b">> }

DeckIdAt(p, i) == 10 * p + i

SeqsUpTo(S, n) == UNION { [1..k -> S] : k \in 0..n }

IsChain(shape) ==
    \A p \in DOMAIN shape :
        IF p < Len(shape)
        THEN shape[p].n /= <<>> /\ shape[p].bm
        ELSE shape[p].n = <<>> \/ ~shape[p].bm

DeckShapes ==
    UNION { { s \in [1..k -> [n : SeqsUpTo(DeckNames, MaxDeckDocs), bm : BOOLEAN]] :
                IsChain(s) } : k \in 1..MaxDeckPages }

DeckListing(shape) ==
    [p \in DOMAIN shape |->
        [docs |-> [i \in DOMAIN shape[p].n |->
                      [name |-> shape[p].n[i], id |-> DeckIdAt(p, i)]],
         bookmark |-> IF shape[p].bm THEN p ELSE NoBookmark]]

DeckListings == { DeckListing(s) : s \in DeckShapes }

CardShapes ==
    UNION { { s \in [1..k -> [n : SeqsUpTo({"card"}, MaxCardDocs), bm : BOOLEAN]] :
                IsChain(s) } : k \in 1..MaxCardPages }

\* the cards of a listing are told apart by their place in it
CardListing(shape) ==
    [p \in DOMAIN shape |->
        [docs |-> [i \in DOMAIN shape[p].n |-> [id |-> 10 * p + i]],
         bookmark |-> IF shape[p].bm THEN p ELSE NoBookmark]]

CardListings == { CardListing(s) : s \in CardShapes }

\* the page the service answers a URL with: the first page without a
\* bookmark, the page after the bookmarked one with it
ServePage(pages, u) == pages[u.bookmark + 1]

VARIABLES
    deckPages,      \* the decks listing the service holds
    deck_name,      \* get_deck_id's argument
    deck_url,       \* get_deck_id: url
    deck_attempt,   \* get_deck_id: attempt
    deck_status,    \* get_deck_id: idle, running, returned, or how it raised
    deck_result,    \* get_deck_id: the returned id
    deck_raised,    \* get_deck_id: the exception it raised
    deck_fetched,   \* history: the pages answered with 200, in order
    deck_tries,     \* history: attempts of the current request
    deck_sleeps,    \* history: time.sleep calls during the current request
    deck_last,      \* history: how the last attempt ended
    deck_retried,   \* history: an earlier request was answered at its third attempt
    deck_client,    \* get_deck_id: its httpx.Client, open or closed
    cardPages,      \* the cards listing the service holds
    deck_id,        \* get_cards's argument
    cards_url,      \* get_cards: url
    cards_attempt,  \* get_cards: attempt
    cards_status,   \* get_cards: idle, running, returned, or how it raised
    cards,          \* get_cards: cards
    cards_raised,   \* get_cards: the exception it raised
    cards_fetched,  \* history: the pages answered with 200, in order
    cards_urls,     \* history: the URLs answered with 200, in order
    cards_tries,    \* history: attempts of the current request
    cards_sleeps,   \* history: time.sleep calls during the current request
    cards_last,     \* history: how the last attempt ended
    cards_retried,  \* history: an earlier request was answered at its third attempt
    cards_client,   \* get_cards: its httpx.Client, open or closed
    card,           \* parse_card's argument
    parsed,         \* parse_card's result
    parse_status,   \* parse_card: idle, done
    valid_cards,    \* write_vocab_to_file: valid_cards
    w_status,       \* write_vocab_to_file: idle, parsing, writing, done, failed
    w_i,            \* write_vocab_to_file: cards of the first loop done
    w_k,            \* write_vocab_to_file: i of the second loop
    w_line,         \* write_vocab_to_file: the next f.write of record i
    out_file,       \* the file at config.output_file
    file_before,    \* history: the file at config.output_file before the run
    api_key,        \* the environment: MOCHI_API_KEY is set
    main_pc,        \* the process: load, start, deck, cards, write, ended
    printed,        \* main: the error its except clause printed
    exit_code       \* the process: its exit status once it ended

deckVars == <<deckPages, deck_name, deck_url, deck_attempt, deck_status,
              deck_result, deck_raised, deck_fetched, deck_tries, deck_sleeps, deck_last,
              deck_retried, deck_client>>
cardVars == <<cardPages, deck_id, cards_url, cards_attempt, cards_status,
              cards, cards_raised, cards_fetched, cards_urls, cards_tries, cards_sleeps,
              cards_last, cards_retried, cards_client>>
parseVars == <<card, parsed, parse_status>>
writeVars == <<valid_cards, w_status, w_i, w_k, w_line, out_file, file_before>>
mainVars == <<api_key, main_pc, printed, exit_code>>
vars == <<deckVars, cardVars, parseVars, writeVars, mainVars>>

(***************************************************************************)
(* get_deck_id                                                             *)
(***************************************************************************)
\* f"{config.api_base_url}/decks" and f"...decks?bookmark={bookmark}"
DecksUrl(bookmark) == [path |-> "decks", bookmark |-> bookmark]

\* the last deck of the page that matches, as a bug would have it
RECURSIVE FirstMatch_LastOfPage(_, _, _)
FirstMatch_LastOfPage(decks, wanted, i) ==
    IF i > Len(decks) THEN 0
    ELSE LET later == FirstMatch_LastOfPage(decks, wanted, i + 1)
         IN  IF later /= 0 THEN later
             ELSE IF LowerStr(decks[i].name) = LowerStr(wanted) THEN i
             ELSE 0

\* for deck in decks: if ... : return deck["id"]  (0: no deck matches)
RECURSIVE FirstMatch(_, _, _)
FirstMatch(decks, wanted, i) ==
    IF i > Len(decks) THEN 0
    ELSE IF NameMatches(decks[i].name, wanted) THEN i
    ELSE FirstMatch(decks, wanted, i + 1)

\* bookmark = data.get("bookmark"); if not bookmark or not decks: break;
\* url = ...: the break leaves the retry loop with url as it was
DeckNextUrl(u, page) ==
    IF page.bookmark = NoBookmark \/ page.docs = <<>>
    THEN u
    ELSE DecksUrl(page.bookmark)

\* time.sleep(2 ** attempt)
Backoff_Linear(attempt) == attempt + 2

Backoff(attempt) == Pow2(attempt)

\* if attempt < retries - 1
MayRetry(attempt) == attempt < Retries - 1

\* an attempt counter kept from one request to the next, as a bug would
\* have it
NextRequestAttempt_Carried(attempt) == attempt

\* for attempt in range(retries): the loop starts anew for each request
NextRequestAttempt(attempt) == 0

\* a client closed before a return only, as a bug would have it
ClientOnExit_LeftOpenOnRaise(status) ==
    IF status \in {"running", "http_error", "network_error", "timeout_error"}
    THEN "open" ELSE "closed"

\* with httpx.Client(...) as client: leaving the block, by a return or by
\* an exception, closes the client
ClientOnExit(status) == IF status = "running" THEN "open" ELSE "closed"

GetDeckId_Call ==
    /\ deck_status = "idle"
    /\ deck_status' = "running"
    /\ deck_url' = DecksUrl(NoBookmark)
    /\ deck_attempt' = 0
    /\ UNCHANGED <<deckPages, deck_name, deck_result, deck_raised, deck_fetched, deck_tries,
                   deck_sleeps, deck_last>>
    /\ deck_client' = "open"
    /\ UNCHANGED deck_retried
    /\ UNCHANGED <<cardVars, parseVars, writeVars, mainVars>>

\* client.get(url) answers 200
GetDeckId_Response200 ==
    /\ deck_status = "running"
    /\ Len(deck_fetched) < MaxFetches
    /\ LET page == ServePage(deckPages, deck_url)
           m == FirstMatch(page.docs, deck_name, 1)
           next == DeckNextUrl(deck_url, page)
       IN  /\ deck_fetched' = Append(deck_fetched, deck_url.bookmark + 1)
           /\ deck_last' = "ok"
           /\ IF m /= 0
              THEN /\ deck_status' = "returned"
                   /\ deck_result' = page.docs[m].id
                   /\ deck_tries' = deck_tries + 1
                   /\ UNCHANGED <<deck_url, deck_attempt, deck_sleeps, deck_raised,
                                  deck_retried>>
              ELSE /\ deck_url' = next
                   /\ deck_attempt' = NextRequestAttempt(deck_attempt)
                   /\ deck_retried' = (deck_retried \/ deck_tries = Retries - 1)
                   /\ deck_tries' = 0
                   /\ deck_sleeps' = <<>>
                   /\ deck_status' = IF next = NoUrl THEN "not_found" ELSE "running"
                   /\ deck_raised' = IF next = NoUrl
                                     THEN [msg |-> "Deck not found", name |-> deck_name]
                                     ELSE deck_raised
                   /\ UNCHANGED deck_result
    /\ UNCHANGED <<deckPages, deck_name>>
    /\ deck_client' = ClientOnExit(deck_status')
    /\ UNCHANGED <<cardVars, parseVars, writeVars, mainVars>>

\* a non-200 answer handled like a read timeout, as a bug would have it
GetDeckId_ResponseNot200_Retried ==
    /\ deck_status = "running"
    /\ deck_last' = "http"
    /\ deck_tries' = deck_tries + 1
    /\ IF MayRetry(deck_attempt)
       THEN /\ deck_sleeps' = Append(deck_sleeps, Backoff(deck_attempt))
            /\ deck_attempt' = deck_attempt + 1
            /\ UNCHANGED <<deck_status, deck_raised>>
       ELSE /\ deck_status' = "http_error"
            /\ deck_raised' = [msg |-> "Failed to fetch decks", status |-> 500]
            /\ UNCHANGED <<deck_sleeps, deck_attempt>>
    /\ UNCHANGED <<deckPages, deck_name, deck_url, deck_result, deck_fetched>>
    /\ deck_client' = ClientOnExit(deck_status')
    /\ UNCHANGED deck_retried
    /\ UNCHANGED <<cardVars, parseVars, writeVars, mainVars>>

\* client.get(url) answers another status
GetDeckId_ResponseNot200 ==
    /\ deck_status = "running"
    /\ deck_status' = "http_error"
    /\ \E code \in OtherStatusCodes :
          deck_raised' = [msg |-> "Failed to fetch decks", status |-> code]
    /\ deck_last' = "http"
    /\ deck_tries' = deck_tries + 1
    /\ UNCHANGED <<deckPages, deck_name, deck_url, deck_attempt, deck_result,
                   deck_fetched, deck_sleeps>>
    /\ deck_client' = ClientOnExit(deck_status')
    /\ UNCHANGED deck_retried
    /\ UNCHANGED <<cardVars, parseVars, writeVars, mainVars>>

\* client.get(url) raises an httpx error other than ReadTimeout
GetDeckId_NetworkError ==
    /\ deck_status = "running"
    /\ deck_status' = "network_error"
    /\ deck_raised' = [msg |-> "httpx error"]
    /\ deck_last' = "net"
    /\ deck_tries' = deck_tries + 1
    /\ UNCHANGED <<deckPages, deck_name, deck_url, deck_attempt, deck_result,
                   deck_fetched, deck_sleeps>>
    /\ deck_client' = ClientOnExit(deck_status')
    /\ UNCHANGED deck_retried
    /\ UNCHANGED <<cardVars, parseVars, writeVars, mainVars>>

\* client.get(url) raises httpx.ReadTimeout
GetDeckId_ReadTimeout ==
    /\ deck_status = "running"
    /\ deck_last' = "timeout"
    /\ deck_tries' = deck_tries + 1
    /\ IF MayRetry(deck_attempt)
       THEN /\ deck_sleeps' = Append(deck_sleeps, Backoff(deck_attempt))
            /\ deck_attempt' = deck_attempt + 1
            /\ UNCHANGED <<deck_status, deck_raised>>
       ELSE /\ deck_status' = "timeout_error"
            /\ deck_raised' =
                 [msg |-> "Failed to fetch decks after retries: Read operation timed out"]
            /\ UNCHANGED <<deck_sleeps, deck_attempt>>
    /\ UNCHANGED <<deckPages, deck_name, deck_url, deck_result, deck_fetched>>
    /\ deck_client' = ClientOnExit(deck_status')
    /\ UNCHANGED deck_retried
    /\ UNCHANGED <<cardVars, parseVars, writeVars, mainVars>>

(***************************************************************************)
(* get_cards                                                               *)
(***************************************************************************)
\* f"{config.api_base_url}/cards?deck-id={deck_id}&limit=100"
CardsFirstUrl(id) ==
    [path |-> "cards", deckId |-> id, bookmark |-> NoBookmark, limit |-> PageLimit]

\* f"{config.api_base_url}/cards?bookmark={bookmark}&limit=100"
CardsNextUrl(bookmark) ==
    [path |-> "cards", deckId |-> NoDeck, bookmark |-> bookmark, limit |-> PageLimit]

\* the page's cards put in front of the list, as a bug would have it
Extend_Prepend(list, page_cards) == page_cards \o list

\* cards.extend(page_cards)
Extend(list, page_cards) == list \o page_cards

\* a stop on the empty page only, as a bug would have it
IsLastPage_EmptyOnly(page) == page.docs = <<>>

\* if not page_cards: return cards ... if not bookmark: return cards
IsLastPage(page) == page.docs = <<>> \/ page.bookmark = NoBookmark

GetCards_Call ==
    /\ cards_status = "idle"
    /\ cards_status' = "running"
    /\ cards_url' = CardsFirstUrl(deck_id)
    /\ cards_attempt' = 0
    /\ cards' = <<>>
    /\ UNCHANGED <<cardPages, deck_id, cards_raised, cards_fetched, cards_urls, cards_tries,
                   cards_sleeps, cards_last>>
    /\ cards_client' = "open"
    /\ UNCHANGED cards_retried
    /\ UNCHANGED <<deckVars, parseVars, writeVars, mainVars>>

\* client.get(url) answers 200
GetCards_Response200 ==
    /\ cards_status = "running"
    /\ LET page == ServePage(cardPages, cards_url)
       IN  /\ cards_fetched' = Append(cards_fetched, cards_url.bookmark + 1)
           /\ cards_urls' = Append(cards_urls, cards_url)
           /\ cards_last' = "ok"
           /\ cards' = Extend(cards, page.docs)
           /\ IF IsLastPage(page)
              THEN /\ cards_status' = "returned"
                   /\ cards_tries' = cards_tries + 1
                   /\ UNCHANGED <<cards_url, cards_attempt, cards_sleeps, cards_retried>>
              ELSE /\ cards_url' = CardsNextUrl(page.bookmark)
                   /\ cards_attempt' = NextRequestAttempt(cards_attempt)
                   /\ cards_retried' = (cards_retried \/ cards_tries = Retries - 1)
                   /\ cards_tries' = 0
                   /\ cards_sleeps' = <<>>
                   /\ UNCHANGED cards_status
    /\ UNCHANGED <<cardPages, deck_id, cards_raised>>
    /\ cards_client' = ClientOnExit(cards_status')
    /\ UNCHANGED <<deckVars, parseVars, writeVars, mainVars>>

\* client.get(url) answers another status
GetCards_ResponseNot200 ==
    /\ cards_status = "running"
    /\ cards_status' = "http_error"
    /\ \E code \in OtherStatusCodes :
          cards_raised' = [msg |-> "Failed to fetch cards", status |-> code]
    /\ cards_last' = "http"
    /\ cards_tries' = cards_tries + 1
    /\ UNCHANGED <<cardPages, deck_id, cards_url, cards_attempt, cards,
                   cards_fetched, cards_urls, cards_sleeps>>
    /\ cards_client' = ClientOnExit(cards_status')
    /\ UNCHANGED cards_retried
    /\ UNCHANGED <<deckVars, parseVars, writeVars, mainVars>>

\* client.get(url) raises an httpx error other than ReadTimeout
GetCards_NetworkError ==
    /\ cards_status = "running"
    /\ cards_status' = "network_error"
    /\ cards_raised' = [msg |-> "httpx error"]
    /\ cards_last' = "net"
    /\ cards_tries' = cards_tries + 1
    /\ UNCHANGED <<cardPages, deck_id, cards_url, cards_attempt, cards,
                   cards_fetched, cards_urls, cards_sleeps>>
    /\ cards_client' = ClientOnExit(cards_status')
    /\ UNCHANGED cards_retried
    /\ UNCHANGED <<deckVars, parseVars, writeVars, mainVars>>

\* client.get(url) raises httpx.ReadTimeout
GetCards_ReadTimeout ==
    /\ cards_status = "running"
    /\ cards_last' = "timeout"
    /\ cards_tries' = cards_tries + 1
    /\ IF MayRetry(cards_attempt)
       THEN /\ cards_sleeps' = Append(cards_sleeps, Backoff(cards_attempt))
            /\ cards_attempt' = cards_attempt + 1
            /\ UNCHANGED <<cards_status, cards_raised>>
       ELSE /\ cards_status' = "timeout_error"
            /\ cards_raised' =
                 [msg |-> "Failed to fetch cards after retries: Read operation timed out"]
            /\ UNCHANGED <<cards_sleeps, cards_attempt>>
    /\ UNCHANGED <<cardPages, deck_id, cards_url, cards, cards_fetched, cards_urls>>
    /\ cards_client' = ClientOnExit(cards_status')
    /\ UNCHANGED cards_retried
    /\ UNCHANGED <<deckVars, parseVars, writeVars, mainVars>>

(***************************************************************************)
(* parse_card                                                              *)
(***************************************************************************)
\* what \s matches
Whitespace == {" ", "\n", "\t"}

\* re.search(r'\((.*?)\)', text) from position i on: the first "(" that a
\* ")" follows with no line break in between, and what stands between them
RECURSIVE ClosingAt(_, _)
ClosingAt(text, j) ==
    IF j > Len(text) \/ text[j] = "\n" THEN 0
    ELSE IF text[j] = ")" THEN j
    ELSE ClosingAt(text, j + 1)

RECURSIVE SearchGroup(_, _)
SearchGroup(text, i) ==
    IF i > Len(text) THEN [found |-> FALSE, group |-> <<>>]
    ELSE IF text[i] = "(" /\ ClosingAt(text, i + 1) /= 0
         THEN [found |-> TRUE, group |-> SubSeq(text, i + 1, ClosingAt(text, i + 1) - 1)]
         ELSE SearchGroup(text, i + 1)

\* for key, value in component_cache.items(): ... if match: pinyin =
\* match.group(1); break.  value.get raises on an entry that is no mapping
RECURSIVE PinyinFrom(_, _)
PinyinFrom(cache, k) ==
    IF k > Len(cache) THEN [raised |-> FALSE, value |-> <<>>]
    ELSE IF ~cache[k].mapping THEN [raised |-> TRUE, value |-> <<>>]
    ELSE LET m == SearchGroup(cache[k].text, 1)
         IN  IF m.found THEN [raised |-> FALSE, value |-> m.group]
             ELSE PinyinFrom(cache, k + 1)

ExtractPinyin(c) == PinyinFrom(c.pinyin, 1)

\* the end of the run of whitespace that starts at i
RECURSIVE SkipSpace(_, _)
SkipSpace(s, i) ==
    IF i <= Len(s) /\ s[i] \in Whitespace THEN SkipSpace(s, i + 1) ELSE i

\* re.sub(r'\s*V\s*', '', s) from position i on
RECURSIVE RemoveV(_, _)
RemoveV(s, i) ==
    IF i > Len(s) THEN <<>>
    ELSE LET v == SkipSpace(s, i)
         IN  IF v <= Len(s) /\ s[v] = "V"
             THEN RemoveV(s, SkipSpace(s, v + 1))
             ELSE <<s[i]>> \o RemoveV(s, i + 1)

\* str.strip()
RECURSIVE Strip(_)
Strip(s) ==
    IF s = <<>> THEN s
    ELSE IF Head(s) \in Whitespace THEN Strip(Tail(s))
    ELSE IF s[Len(s)] \in Whitespace THEN Strip(SubSeq(s, 1, Len(s) - 1))
    ELSE s

\* for field_id, field_data in fields.items(): if field_id != "name": ...
\* break.  field_data.get raises on an entry that is no mapping
RECURSIVE HanziFrom(_, _)
HanziFrom(fields, k) ==
    IF k > Len(fields) THEN [raised |-> FALSE, value |-> <<>>]
    ELSE IF fields[k].key = "name" THEN HanziFrom(fields, k + 1)
    ELSE IF ~fields[k].mapping THEN [raised |-> TRUE, value |-> <<>>]
    ELSE [raised |-> FALSE, value |-> Strip(RemoveV(fields[k].value, 1))]

ExtractHanzi(c) == HanziFrom(c.fields, 1)

\* meaning = card.get("name", ""); if not meaning: the first key of
\* component-cache.translate
ExtractMeaning(c) ==
    IF c.name /= <<>> THEN c.name
    ELSE IF c.translate /= <<>> THEN c.translate[1]
    ELSE <<>>

\* created_at.replace("Z", "+00:00")
ReplaceZ(d) == [k \in DOMAIN d |-> IF d[k] = "Z" THEN "+00:00" ELSE d[k]]

IsoDates == {"2023-01-01"}
IsoTimes == {"10:00:00"}
IsoFractions == {".000"}
IsoOffsets == {"+00:00", "+08:00"}

\* what datetime.fromisoformat accepts: a date, or a date, one separator
\* character and a time, then optionally a fraction, then optionally an offset
IsIsoFormat(d) ==
    /\ Len(d) \in {1, 3, 4, 5}
    /\ d[1] \in IsoDates
    /\ Len(d) >= 3 => d[2] \in {"T", " "} /\ d[3] \in IsoTimes
    /\ Len(d) = 4 => d[4] \in IsoFractions \cup IsoOffsets
    /\ Len(d) = 5 => d[4] \in IsoFractions /\ d[5] \in IsoOffsets

\* .strftime("%Y-%m-%d %H:%M:%S")
FormatDate(d) == <<d[1], " ", IF Len(d) >= 3 THEN d[3] ELSE "00:00:00">>

\* created_at = card.get("created-at", {}).get("date", ""); if created_at:
\* created_at = datetime.fromisoformat(...).strftime(...)
ExtractAdded(c) ==
    IF c.date = <<>> THEN [raised |-> FALSE, value |-> <<>>]
    ELSE IF IsIsoFormat(ReplaceZ(c.date))
         THEN [raised |-> FALSE, value |-> FormatDate(ReplaceZ(c.date))]
         ELSE [raised |-> TRUE, value |-> <<>>]

\* return None
Null == [null |-> TRUE]

\* one test failing is enough to skip, as a bug would have it
IsSkipped_AnyEmpty(pinyin, hanzi, meaning) ==
    pinyin = <<>> \/ hanzi = <<>> \/ meaning = <<>>

\* if not pinyin and not hanzi and not meaning
IsSkipped(pinyin, hanzi, meaning) ==
    pinyin = <<>> /\ hanzi = <<>> /\ meaning = <<>>

\* the date guarded on its own, as a best-effort version would have it
AnyRaised_DateGuarded(p, h, a) == p.raised \/ h.raised

\* try: ... except Exception: return None, around the four extractions
AnyRaised(p, h, a) == p.raised \/ h.raised \/ a.raised

parse_card(c) ==
    LET p == ExtractPinyin(c)
        h == ExtractHanzi(c)
        m == ExtractMeaning(c)
        a == ExtractAdded(c)
    IN  IF AnyRaised(p, h, a) THEN Null
        ELSE IF IsSkipped(p.value, h.value, m) THEN Null
        ELSE [pinyin |-> p.value, hanzi |-> h.value, meaning |-> m,
              added |-> a.value]

(***************************************************************************)
(* The cards parse_card is given.  A mapping is the sequence of its entries *)
(* in response order; an entry that is not a mapping (a string, a number)  *)
(* has mapping = FALSE.                                                    *)
(***************************************************************************)
PinyinEntries ==
    { [mapping |-> FALSE, text |-> <<>>],
      [mapping |-> TRUE, text |-> <<"m">>],
      [mapping |-> TRUE, text |-> <<"(", ")">>],
      [mapping |-> TRUE, text |-> <<"{", "h", "}", "(", "m", ")", " ", "{", "V", "}", "(", "V", ")">>] }

FieldIds == <<"RMtY4YCS", "x7QaLm2p", "b2LmZk9r", "k9ZpTn4s">>

FieldData ==
    { [mapping |-> FALSE, value |-> <<>>],
      [mapping |-> TRUE, value |-> <<" ", "V">>],
      [mapping |-> TRUE, value |-> <<"h", " ", "V">>] }

\* the entries of a fields mapping: at most one has the key "name" (its
\* data is never read), the other keys are ids of the service
FieldDataOrName == FieldData \cup { [mapping |-> TRUE, value |-> <<"x">>] }

FieldMaps ==
    { [j \in DOMAIN f |->
          [key |-> IF f[j].named THEN "name" ELSE FieldIds[j],
           mapping |-> f[j].data.mapping, value |-> f[j].data.value]] :
      f \in UNION { { g \in [1..k -> [named : BOOLEAN, data : FieldDataOrName]] :
                        /\ Cardinality({ j \in 1..k : g[j].named }) <= 1
                        /\ \A j \in 1..k :
                              g[j].named <=> g[j].data.value = <<"x">> }
                    : k \in 0..MaxFieldEntries } }

CardNames == { <<>>, <<"n">> }
Translations == { <<>>, << <<"t">> >>, << <<>> >> }
Dates ==
    { <<>>,
      <<"2023-01-01", "T", "10:00:00", "Z">>,
      <<"2023-01-01", "T", "10:00:00", ".000", "+08:00">>,
      <<"yesterday">> }

Cards ==
    [pinyin : SeqsUpTo(PinyinEntries, MaxPinyinEntries), fields : FieldMaps,
     name : CardNames, translate : Translations, date : Dates]

ParseCard_Call ==
    /\ parse_status = "idle"
    /\ parse_status' = "done"
    /\ parsed' = parse_card(card)
    /\ UNCHANGED card
    /\ UNCHANGED <<deckVars, cardVars, writeVars, mainVars>>

(***************************************************************************)
(* write_vocab_to_file                                                     *)
(***************************************************************************)
\* the cards the writer is tried on: a complete one, one with nothing to
\* extract, one whose date does not parse, one with a meaning only, and one
\* whose name spans lines
CardSamples ==
    { [pinyin |-> <<[mapping |-> TRUE, text |-> <<"(", "m", ")">>]>>,
       fields |-> <<[key |-> "name", mapping |-> TRUE, value |-> <<"x">>],
                    [key |-> "RMtY4YCS", mapping |-> TRUE, value |-> <<"h", " ", "V">>]>>,
       name |-> <<"n">>, translate |-> <<>>,
       date |-> <<"2023-01-01", "T", "10:00:00", "Z">>],
      [pinyin |-> <<>>, fields |-> <<>>, name |-> <<>>, translate |-> <<>>,
       date |-> <<>>],
      [pinyin |-> <<>>, fields |-> <<>>, name |-> <<"n">>, translate |-> <<>>,
       date |-> <<"yesterday">>],
      [pinyin |-> <<>>, fields |-> <<>>, name |-> <<>>, translate |-> << <<"t">> >>,
       date |-> <<>>],
      [pinyin |-> <<>>, fields |-> <<>>, name |-> <<"x", "\n", "---", "\n", "y">>,
       translate |-> <<>>, date |-> <<"2023-01-01">>] }

\* the record put first, as a bug would have it
AppendValid_Prepend(list, record) == <<record>> \o list

\* valid_cards.append(parsed)
AppendValid(list, record) == Append(list, record)

\* a separator after every record, as a bug would have it
NeedsSeparator_Always(i, n) == i <= n

\* if i < len(valid_cards)
NeedsSeparator(i, n) == i < n

\* f"Pinyin: {parsed['pinyin']}\n" and the three lines after it
FieldLine(l, record) ==
    CASE l = 1 -> <<"Pinyin: ">> \o record.pinyin \o <<"\n">>
      [] l = 2 -> <<"Hanzi: ">> \o record.hanzi \o <<"\n">>
      [] l = 3 -> <<"Meaning: ">> \o record.meaning \o <<"\n">>
      [] l = 4 -> <<"Added: ">> \o record.added \o <<"\n">>

\* "---\n"
SeparatorLine == <<"---", "\n">>

WriteVocab_Call ==
    /\ w_status = "idle"
    /\ w_status' = "parsing"
    /\ valid_cards' = <<>>
    /\ w_i' = 0
    /\ UNCHANGED <<w_k, w_line, out_file, file_before>>
    /\ UNCHANGED <<deckVars, cardVars, parseVars, mainVars>>

\* one turn of: for card in cards
WriteVocab_ParseCard ==
    /\ w_status = "parsing"
    /\ w_i < Len(cards)
    /\ LET record == parse_card(cards[w_i + 1])
       IN  valid_cards' = IF record /= Null
                          THEN AppendValid(valid_cards, record)
                          ELSE valid_cards
    /\ w_i' = w_i + 1
    /\ UNCHANGED <<w_status, w_k, w_line, out_file, file_before>>
    /\ UNCHANGED <<deckVars, cardVars, parseVars, mainVars>>

\* open(config.output_file, "w", encoding="utf-8")
WriteVocab_Open ==
    /\ w_status = "parsing"
    /\ w_i = Len(cards)
    /\ w_status' = "writing"
    /\ out_file' = [exists |-> TRUE, content |-> <<>>]
    /\ w_k' = 1
    /\ w_line' = 1
    /\ UNCHANGED <<valid_cards, w_i, file_before>>
    /\ UNCHANGED <<deckVars, cardVars, parseVars, mainVars>>

\* one of the four f.write calls of record i
WriteVocab_WriteField ==
    /\ w_status = "writing"
    /\ w_k <= Len(valid_cards)
    /\ w_line \in 1..4
    /\ out_file' = [out_file EXCEPT
                      !.content = Append(@, FieldLine(w_line, valid_cards[w_k]))]
    /\ IF w_line < 4 \/ NeedsSeparator(w_k, Len(valid_cards))
       THEN w_line' = w_line + 1 /\ UNCHANGED w_k
       ELSE w_line' = 1 /\ w_k' = w_k + 1
    /\ UNCHANGED <<valid_cards, w_status, w_i, file_before>>
    /\ UNCHANGED <<deckVars, cardVars, parseVars, mainVars>>

\* f.write("---\n")
WriteVocab_WriteSeparator ==
    /\ w_status = "writing"
    /\ w_k <= Len(valid_cards)
    /\ w_line = 5
    /\ out_file' = [out_file EXCEPT !.content = Append(@, SeparatorLine)]
    /\ w_line' = 1
    /\ w_k' = w_k + 1
    /\ UNCHANGED <<valid_cards, w_status, w_i, file_before>>
    /\ UNCHANGED <<deckVars, cardVars, parseVars, mainVars>>

\* open(config.output_file, "w") raises OSError: nothing is opened
WriteVocab_OpenFails ==
    /\ w_status = "parsing"
    /\ w_i = Len(cards)
    /\ w_status' = "failed"
    /\ UNCHANGED <<valid_cards, w_i, w_k, w_line, out_file, file_before>>
    /\ UNCHANGED <<deckVars, cardVars, parseVars, mainVars>>

\* an f.write, or the flush when the with block closes the file, raises
\* OSError (or f.write raises UnicodeEncodeError): the file keeps what had
\* reached it of the lines written so far, all of them or fewer
WriteVocab_WriteFails ==
    /\ w_status = "writing"
    /\ w_status' = "failed"
    /\ \E n \in 0..Len(out_file.content) :
          out_file' = [out_file EXCEPT !.content = SubSeq(@, 1, n)]
    /\ UNCHANGED <<valid_cards, w_i, w_k, w_line, file_before>>
    /\ UNCHANGED <<deckVars, cardVars, parseVars, mainVars>>

\* the end of the with block and the print after it
WriteVocab_Close ==
    /\ w_status = "writing"
    /\ w_k > Len(valid_cards)
    /\ w_status' = "done"
    /\ UNCHANGED <<valid_cards, w_i, w_k, w_line, out_file, file_before>>
    /\ UNCHANGED <<deckVars, cardVars, parseVars, mainVars>>

(***************************************************************************)
(* The process: the module-level configuration, then main()                *)
(***************************************************************************)
\* how get_deck_id and get_cards end with an exception
RaisedStatuses == {"not_found", "http_error", "network_error", "timeout_error"}

\* the process ended with this exit status
Exit(code) == [ended |-> TRUE, code |-> code]

\* config = MochiConfig() at import: without MOCHI_API_KEY it raises, the
\* module re-raises 'Configuration error: ...' and, nothing catching it, the
\* interpreter prints the traceback and ends with status 1
LoadConfig ==
    /\ main_pc = "load"
    /\ IF api_key
       THEN /\ main_pc' = "start"
            /\ UNCHANGED exit_code
       ELSE /\ main_pc' = "ended"
            /\ exit_code' = Exit(1)
    /\ UNCHANGED <<api_key, printed>>
    /\ UNCHANGED <<deckVars, cardVars, parseVars, writeVars>>

\* the file opened for writing before the fetches, as a bug would have it
Main_GetDeckId_OpensFile ==
    /\ main_pc = "start"
    /\ main_pc' = "deck"
    /\ deck_status' = "idle"
    /\ out_file' = [exists |-> TRUE, content |-> <<>>]
    /\ UNCHANGED <<deckPages, deck_name, deck_url, deck_attempt, deck_result,
                   deck_raised, deck_fetched, deck_tries, deck_sleeps, deck_last,
                   deck_retried, deck_client>>
    /\ UNCHANGED <<valid_cards, w_status, w_i, w_k, w_line, file_before>>
    /\ UNCHANGED <<api_key, printed, exit_code>>
    /\ UNCHANGED <<cardVars, parseVars>>

\* deck_id = get_deck_id(config.deck_name): the call
Main_GetDeckId ==
    /\ main_pc = "start"
    /\ main_pc' = "deck"
    /\ deck_status' = "idle"
    /\ UNCHANGED <<deckPages, deck_name, deck_url, deck_attempt, deck_result,
                   deck_raised, deck_fetched, deck_tries, deck_sleeps, deck_last,
                   deck_retried, deck_client>>
    /\ UNCHANGED <<api_key, printed, exit_code>>
    /\ UNCHANGED <<cardVars, parseVars, writeVars>>

\* cards = get_cards(deck_id): the call, once get_deck_id returned
Main_GetCards ==
    /\ main_pc = "deck"
    /\ deck_status = "returned"
    /\ main_pc' = "cards"
    /\ deck_id' = deck_result
    /\ cards_status' = "idle"
    /\ UNCHANGED <<cardPages, cards_url, cards_attempt, cards, cards_raised,
                   cards_fetched, cards_urls, cards_tries, cards_sleeps, cards_last,
                   cards_retried, cards_client>>
    /\ UNCHANGED <<api_key, printed, exit_code>>
    /\ UNCHANGED <<deckVars, parseVars, writeVars>>

\* if not cards: print("No cards found in the deck"); return
Main_NoCards ==
    /\ main_pc = "cards"
    /\ cards_status = "returned"
    /\ cards = <<>>
    /\ main_pc' = "ended"
    /\ exit_code' = Exit(0)
    /\ UNCHANGED <<api_key, printed>>
    /\ UNCHANGED <<deckVars, cardVars, parseVars, writeVars>>

\* the writer called whatever the list, as a bug would have it
Main_WriteVocab_AnyList ==
    /\ main_pc = "cards"
    /\ cards_status = "returned"
    /\ main_pc' = "write"
    /\ w_status' = "idle"
    /\ UNCHANGED <<valid_cards, w_i, w_k, w_line, out_file, file_before>>
    /\ UNCHANGED <<api_key, printed, exit_code>>
    /\ UNCHANGED <<deckVars, cardVars, parseVars>>

\* write_vocab_to_file(cards): the call
Main_WriteVocab ==
    /\ main_pc = "cards"
    /\ cards_status = "returned"
    /\ cards /= <<>>
    /\ main_pc' = "write"
    /\ w_status' = "idle"
    /\ UNCHANGED <<valid_cards, w_i, w_k, w_line, out_file, file_before>>
    /\ UNCHANGED <<api_key, printed, exit_code>>
    /\ UNCHANGED <<deckVars, cardVars, parseVars>>

\* the end of main after the writer returned
Main_Return ==
    /\ main_pc = "write"
    /\ w_status = "done"
    /\ main_pc' = "ended"
    /\ exit_code' = Exit(0)
    /\ UNCHANGED <<api_key, printed>>
    /\ UNCHANGED <<deckVars, cardVars, parseVars, writeVars>>

\* the error printed and the process ended with status 1, as a program
\* that reports its failures would have it
Main_Except_ExitsNonZero ==
    /\ \/ /\ main_pc = "deck"
          /\ deck_status \in RaisedStatuses
          /\ printed' = deck_raised
       \/ /\ main_pc = "cards"
          /\ cards_status \in RaisedStatuses
          /\ printed' = cards_raised
       \/ /\ main_pc = "write"
          /\ w_status = "failed"
          /\ printed' = [msg |-> "OSError"]
    /\ main_pc' = "ended"
    /\ exit_code' = Exit(1)
    /\ UNCHANGED api_key
    /\ UNCHANGED <<deckVars, cardVars, parseVars, writeVars>>

\* except Exception as e: print(f"Error: {str(e)}"), and main returns
Main_Except ==
    /\ \/ /\ main_pc = "deck"
          /\ deck_status \in RaisedStatuses
          /\ printed' = deck_raised
       \/ /\ main_pc = "cards"
          /\ cards_status \in RaisedStatuses
          /\ printed' = cards_raised
       \/ /\ main_pc = "write"
          /\ w_status = "failed"
          /\ printed' = [msg |-> "OSError"]
    /\ main_pc' = "ended"
    /\ exit_code' = Exit(0)
    /\ UNCHANGED api_key
    /\ UNCHANGED <<deckVars, cardVars, parseVars, writeVars>>

DeckIdle ==
    /\ deckPages = DeckListing(<<[n |-> <<>>, bm |-> FALSE]>>)
    /\ deck_name = <<"c">>
    /\ deck_url = NoUrl
    /\ deck_attempt = 0
    /\ deck_status = "off"
    /\ deck_result = NoDeck
    /\ deck_raised = NoError
    /\ deck_fetched = <<>>
    /\ deck_tries = 0
    /\ deck_sleeps = <<>>
    /\ deck_last = "none"
    /\ deck_retried = FALSE
    /\ deck_client = "closed"

CardsIdle ==
    /\ cardPages = CardListing(<<[n |-> <<>>, bm |-> FALSE]>>)
    /\ deck_id = NoDeck
    /\ cards_url = NoUrl
    /\ cards_attempt = 0
    /\ cards_status = "off"
    /\ cards = <<>>
    /\ cards_raised = NoError
    /\ cards_fetched = <<>>
    /\ cards_urls = <<>>
    /\ cards_tries = 0
    /\ cards_sleeps = <<>>
    /\ cards_last = "none"
    /\ cards_retried = FALSE
    /\ cards_client = "closed"

ParseIdle ==
    /\ card = Null
    /\ parsed = Null
    /\ parse_status = "off"

WriteIdle ==
    /\ valid_cards = <<>>
    /\ w_status = "off"
    /\ w_i = 0
    /\ w_k = 0
    /\ w_line = 0
    /\ out_file = [exists |-> FALSE, content |-> <<>>]
    /\ file_before = out_file

MainIdle ==
    /\ api_key = TRUE
    /\ main_pc = "off"
    /\ printed = NoError
    /\ exit_code = NoExit

\* get_deck_id is about to be called on some listing, with some name
InitDeck ==
    /\ deckPages \in DeckListings
    /\ deck_name \in WantedNames
    /\ deck_url = NoUrl
    /\ deck_attempt = 0
    /\ deck_status = "idle"
    /\ deck_result = NoDeck
    /\ deck_raised = NoError
    /\ deck_fetched = <<>>
    /\ deck_tries = 0
    /\ deck_sleeps = <<>>
    /\ deck_last = "none"
    /\ deck_retried = FALSE
    /\ deck_client = "closed"
    /\ CardsIdle /\ ParseIdle /\ WriteIdle /\ MainIdle

NextDeck ==
    \/ GetDeckId_Call
    \/ GetDeckId_Response200
    \/ GetDeckId_ResponseNot200
    \/ GetDeckId_NetworkError
    \/ GetDeckId_ReadTimeout

SpecDeck == InitDeck /\ [][NextDeck]_vars

\* get_cards is about to be called on some listing, for some deck
InitCards ==
    /\ cardPages \in CardListings
    /\ deck_id \in {11, 12, 21}
    /\ cards_url = NoUrl
    /\ cards_attempt = 0
    /\ cards_status = "idle"
    /\ cards = <<>>
    /\ cards_raised = NoError
    /\ cards_fetched = <<>>
    /\ cards_urls = <<>>
    /\ cards_tries = 0
    /\ cards_sleeps = <<>>
    /\ cards_last = "none"
    /\ cards_retried = FALSE
    /\ cards_client = "closed"
    /\ DeckIdle /\ ParseIdle /\ WriteIdle /\ MainIdle

NextCards ==
    \/ GetCards_Call
    \/ GetCards_Response200
    \/ GetCards_ResponseNot200
    \/ GetCards_NetworkError
    \/ GetCards_ReadTimeout

SpecCards == InitCards /\ [][NextCards]_vars

\* either operation, called on its own
InitFetch == InitDeck \/ InitCards

NextFetch == NextDeck \/ NextCards

SpecFetch == InitFetch /\ [][NextFetch]_vars

\* parse_card is about to be called on some card
InitParse ==
    /\ card \in Cards
    /\ parsed = Null
    /\ parse_status = "idle"
    /\ DeckIdle /\ CardsIdle /\ WriteIdle /\ MainIdle

NextParse == ParseCard_Call

SpecParse == InitParse /\ [][NextParse]_vars

\* the characters of the field values the hanzi extraction is tried on: a
\* blank, the placeholder, a hanzi and another Latin capital
HanziChars == {" ", "V", "h", "T"}

\* cards whose fields mapping has one entry, keyed by an id of the service,
\* with any value of these characters; the name gives every card a meaning
HanziCards ==
    { [pinyin |-> <<>>,
       fields |-> <<[key |-> FieldIds[1], mapping |-> TRUE, value |-> v]>>,
       name |-> <<"n">>, translate |-> <<>>, date |-> <<>>] :
      v \in SeqsUpTo(HanziChars, MaxHanziLen) }

\* parse_card is about to be called on a card with some hanzi field value
InitHanzi ==
    /\ card \in HanziCards
    /\ parsed = Null
    /\ parse_status = "idle"
    /\ DeckIdle /\ CardsIdle /\ WriteIdle /\ MainIdle

SpecHanzi == InitHanzi /\ [][NextParse]_vars

\* what the output file held before the run
OldContent == << <<"Pinyin: ", "o", "\n">> >>

\* the decks listings a run is tried on: the wanted deck on the first page,
\* on the second page, nowhere
MainDeckListings ==
    { DeckListing(<<[n |-> << <<"a", "B">> >>, bm |-> FALSE]>>),
      DeckListing(<<[n |-> << <<"c">> >>, bm |-> TRUE],
                    [n |-> << <<"c">>, <<"a", "B">> >>, bm |-> FALSE]>>),
      DeckListing(<<[n |-> << <<"c">> >>, bm |-> FALSE]>>) }

\* the cards listing that holds these cards: one page for at most one card,
\* else a first page with the first card and a last page with the others
MainCardListing(cs) ==
    IF Len(cs) <= 1
    THEN <<[docs |-> cs, bookmark |-> NoBookmark]>>
    ELSE <<[docs |-> <<Head(cs)>>, bookmark |-> 1],
           [docs |-> Tail(cs), bookmark |-> NoBookmark]>>

\* the cards of a run: the complete one, the one with nothing to extract
\* and the one whose name spans lines
MainCardSamples ==
    { c \in CardSamples : c.translate = <<>> /\ c.date /= <<"yesterday">> }

MainCardListings ==
    { MainCardListing(cs) : cs \in SeqsUpTo(MainCardSamples, MaxMainCards) }

\* the process is about to start: MOCHI_API_KEY set or not, some listings on
\* the service, the output file absent or left by an earlier run
InitMain ==
    /\ api_key \in BOOLEAN
    /\ main_pc = "load"
    /\ printed = NoError
    /\ exit_code = NoExit
    /\ deckPages \in MainDeckListings
    /\ deck_name = <<"A", "b">>
    /\ deck_url = NoUrl
    /\ deck_attempt = 0
    /\ deck_status = "off"
    /\ deck_result = NoDeck
    /\ deck_raised = NoError
    /\ deck_fetched = <<>>
    /\ deck_tries = 0
    /\ deck_sleeps = <<>>
    /\ deck_last = "none"
    /\ deck_retried = FALSE
    /\ deck_client = "closed"
    /\ cardPages \in MainCardListings
    /\ deck_id = NoDeck
    /\ cards_url = NoUrl
    /\ cards_attempt = 0
    /\ cards_status = "off"
    /\ cards = <<>>
    /\ cards_raised = NoError
    /\ cards_fetched = <<>>
    /\ cards_urls = <<>>
    /\ cards_tries = 0
    /\ cards_sleeps = <<>>
    /\ cards_last = "none"
    /\ cards_retried = FALSE
    /\ cards_client = "closed"
    /\ valid_cards = <<>>
    /\ w_status = "off"
    /\ w_i = 0
    /\ w_k = 0
    /\ w_line = 0
    /\ out_file \in { [exists |-> FALSE, content |-> <<>>],
                      [exists |-> TRUE, content |-> OldContent] }
    /\ file_before = out_file
    /\ ParseIdle


\* write_vocab_to_file is about to be called on some list of cards, the
\* output file absent or left by an earlier run
InitWrite ==
    /\ cards \in SeqsUpTo(CardSamples, MaxCards)
    /\ cardPages = CardListing(<<[n |-> <<>>, bm |-> FALSE]>>)
    /\ deck_id = NoDeck
    /\ cards_url = NoUrl
    /\ cards_attempt = 0
    /\ cards_status = "off"
    /\ cards_raised = NoError
    /\ cards_fetched = <<>>
    /\ cards_urls = <<>>
    /\ cards_tries = 0
    /\ cards_sleeps = <<>>
    /\ cards_last = "none"
    /\ cards_retried = FALSE
    /\ cards_client = "closed"
    /\ valid_cards = <<>>
    /\ w_status = "idle"
    /\ w_i = 0
    /\ w_k = 0
    /\ w_line = 0
    /\ out_file \in { [exists |-> FALSE, content |-> <<>>],
                      [exists |-> TRUE, content |-> OldContent] }
    /\ file_before = out_file
    /\ DeckIdle /\ ParseIdle /\ MainIdle

NextWrite ==
    \/ WriteVocab_Call
    \/ WriteVocab_ParseCard
    \/ WriteVocab_Open
    \/ WriteVocab_WriteField
    \/ WriteVocab_WriteSeparator
    \/ WriteVocab_Close
    \/ WriteVocab_OpenFails
    \/ WriteVocab_WriteFails

SpecWrite == InitWrite /\ [][NextWrite]_vars

\* a whole run of the process
NextMain ==
    \/ LoadConfig
    \/ Main_GetDeckId
    \/ Main_GetCards
    \/ Main_NoCards
    \/ Main_WriteVocab
    \/ Main_Return
    \/ Main_Except
    \/ NextDeck
    \/ NextCards
    \/ NextWrite

SpecMain == InitMain /\ [][NextMain]_vars

(***************************************************************************)
(* Properties of get_deck_id and get_cards.                                *)
(***************************************************************************)
Count(seq, x) == Cardinality({ k \in DOMAIN seq : seq[k] = x })

Last(seq) == seq[Len(seq)]

\* the places (page, index) of the decks whose lowercased name is the
\* lowercased wanted name
MatchingPlaces ==
    { pi \in (DOMAIN deckPages) \X (1..MaxDeckDocs + 1) :
        /\ pi[2] \in DOMAIN deckPages[pi[1]].docs
        /\ LowerStr(deckPages[pi[1]].docs[pi[2]].name) = LowerStr(deck_name) }

\* the docs of the pages fetched, one after the other
RECURSIVE ConcatDocs(_, _)
ConcatDocs(pages, fetched) ==
    IF fetched = <<>> THEN <<>>
    ELSE ConcatDocs(pages, SubSeq(fetched, 1, Len(fetched) - 1))
             \o pages[Last(fetched)].docs

RECURSIVE SumDocs(_, _)
SumDocs(pages, fetched) ==
    IF fetched = <<>> THEN 0
    ELSE Len(pages[Head(fetched)].docs) + SumDocs(pages, Tail(fetched))

\* a page that ends the pagination: no docs, or no bookmark
EndsListing(page) == page.docs = <<>> \/ page.bookmark = NoBookmark

\* C1: when no deck of the listing matches the wanted name, get_deck_id
\* requests no page a second time, and having been answered every page of
\* the listing it has raised the 'Deck not found' error.
C1_NotFoundAfterEveryPageOnce ==
    MatchingPlaces = {} =>
        /\ \A p \in DOMAIN deckPages : Count(deck_fetched, p) <= 1
        /\ (\A p \in DOMAIN deckPages : Count(deck_fetched, p) >= 1)
               => deck_status = "not_found"

\* C2: when the listing holds a deck whose lowercased name is the lowercased
\* wanted name, get_deck_id returns the id of such a deck: it returns as soon
\* as a page holding one has been answered, whichever page that is, it asks
\* for no page twice and never raises 'Deck not found'; the id returned is
\* that of a matching deck of the listing.
C2_ReturnsMatchingDeckId ==
    /\ deck_status = "returned" =>
           \E pi \in MatchingPlaces :
               deck_result = deckPages[pi[1]].docs[pi[2]].id
    /\ \A pi \in MatchingPlaces :
           Count(deck_fetched, pi[1]) >= 1 => deck_status = "returned"
    /\ MatchingPlaces /= {} =>
           /\ deck_status /= "not_found"
           /\ \A p \in DOMAIN deckPages : Count(deck_fetched, p) <= 1

\* get_deck_id returned a deck of the second page whose name differs from the
\* wanted name in letter casing
C2_Witness ==
    /\ deck_status = "returned"
    /\ deck_fetched = <<1, 2>>
    /\ \E i \in DOMAIN deckPages[2].docs :
           /\ deckPages[2].docs[i].id = deck_result
           /\ deckPages[2].docs[i].name /= deck_name

\* C3: at every point of get_cards, and so when it returns, cards is the
\* concatenation, in page order and within-page order, of the docs of the
\* pages answered so far; its length is the sum of their lengths; the pages
\* answered are the pages 1, 2, ... of the listing, each once, whatever
\* requests were retried after a read timeout.
C3_CardsAreConcatenationOfPages ==
    /\ cards = ConcatDocs(cardPages, cards_fetched)
    /\ Len(cards) = SumDocs(cardPages, cards_fetched)
    /\ \A k \in DOMAIN cards_fetched : cards_fetched[k] = k

\* get_cards returned four cards of two pages, the second page's request
\* having timed out twice before it was answered
C3_Witness ==
    /\ cards_status = "returned"
    /\ Len(cards_fetched) = 2
    /\ cards_sleeps = <<1, 2>>
    /\ Len(cards) = 4
    /\ cards[1] /= cards[3]

\* C4: get_cards returns at the first page with empty docs or without
\* bookmark: such a page is the last one answered, get_cards has returned
\* with it and made no attempt after it; it returns at no other page; the
\* list returned ends with the docs of a last page that is non-empty and is
\* the list of the earlier pages when the last page is empty.
C4_ReturnsAtFirstLastPage ==
    /\ \A k \in DOMAIN cards_fetched :
           EndsListing(cardPages[cards_fetched[k]]) =>
               /\ k = Len(cards_fetched)
               /\ cards_status = "returned"
               /\ cards_last = "ok"
    /\ cards_status = "returned" =>
           /\ cards_fetched /= <<>>
           /\ EndsListing(cardPages[Last(cards_fetched)])
           /\ LET before == SubSeq(cards_fetched, 1, Len(cards_fetched) - 1)
              IN  cards = ConcatDocs(cardPages, before)
                             \o cardPages[Last(cards_fetched)].docs

\* get_cards returned the cards of two pages after the answer of a third,
\* empty page that carried a bookmark
C4_Witness ==
    /\ cards_status = "returned"
    /\ cards_fetched = <<1, 2, 3>>
    /\ cardPages[3].docs = <<>>
    /\ cardPages[3].bookmark /= NoBookmark
    /\ Len(cards) = 4

\* the sleeps of n attempts that timed out and were retried: 1, 2, 4, ...
ExpectedSleeps(n) == [k \in 1..n |-> 2 ^ (k - 1)]

C6_ErrorsFailAtOnce ==
    /\ deck_last = "http" => deck_status = "http_error"
    /\ deck_last = "net" => deck_status = "network_error"
    /\ deck_status \in {"http_error", "network_error"} =>
           /\ deck_last \in {"http", "net"}
           /\ deck_sleeps = ExpectedSleeps(deck_tries - 1)
           /\ ~ENABLED NextDeck
    /\ cards_last = "http" => cards_status = "http_error"
    /\ cards_last = "net" => cards_status = "network_error"
    /\ cards_status \in {"http_error", "network_error"} =>
           /\ cards_last \in {"http", "net"}
           /\ cards_sleeps = ExpectedSleeps(cards_tries - 1)
           /\ ~ENABLED NextCards

\* the request of the second page of decks timed out once and was then
\* answered 404
C6_Witness ==
    /\ deck_status = "http_error"
    /\ deck_raised = [msg |-> "Failed to fetch decks", status |-> 404]
    /\ deck_fetched = <<1>>
    /\ deck_tries = 2
    /\ deck_sleeps = <<1>>

(***************************************************************************)
(* Properties of parse_card and write_vocab_to_file.                       *)
(***************************************************************************)
\* an extraction raises on the card
Raises(c) ==
    ExtractPinyin(c).raised \/ ExtractHanzi(c).raised \/ ExtractAdded(c).raised

\* the record of the four extractions, each taken on its own
Extracted(c) ==
    [pinyin |-> ExtractPinyin(c).value, hanzi |-> ExtractHanzi(c).value,
     meaning |-> ExtractMeaning(c), added |-> ExtractAdded(c).value]

\* C7: when no extraction raised, parse_card returns null exactly when the
\* extracted pinyin, hanzi and meaning are all empty; whenever one of the
\* three is non-empty it returns the record of the four extracted values,
\* whichever of the others and of added are empty.
C7_NullIffAllThreeEmpty ==
    (parse_status = "done" /\ ~Raises(card)) =>
        LET e == Extracted(card)
        IN  /\ parsed = Null <=>
                   (e.pinyin = <<>> /\ e.hanzi = <<>> /\ e.meaning = <<>>)
            /\ (e.pinyin /= <<>> \/ e.hanzi /= <<>> \/ e.meaning /= <<>>)
                   => parsed = e

\* parse_card returned a record whose only non-empty value is the meaning
C7_Witness ==
    /\ parse_status = "done"
    /\ ~Raises(card)
    /\ parsed /= Null
    /\ parsed.pinyin = <<>> /\ parsed.hanzi = <<>> /\ parsed.added = <<>>
    /\ parsed.meaning /= <<>>

\* C8, as claimed: when an extraction fails on a card, the other fields are
\* still extracted, and the card yields a record if any of pinyin, hanzi,
\* meaning is non-empty.
C8_ExtractionsIndependent ==
    (parse_status = "done" /\ Raises(card)) =>
        LET p == ExtractPinyin(card)
            h == ExtractHanzi(card)
            a == ExtractAdded(card)
            m == ExtractMeaning(card)
        IN  (p.value /= <<>> \/ h.value /= <<>> \/ m /= <<>>) =>
                /\ parsed /= Null
                /\ ~p.raised => parsed.pinyin = p.value
                /\ ~h.raised => parsed.hanzi = h.value
                /\ ~a.raised => parsed.added = a.value
                /\ parsed.meaning = m

\* C8, as amended: the extractions are independent as long as none raises,
\* and then each field of the record is what its own source gives, a source
\* that is absent or empty leaving only its own field empty; an extraction
\* that raises makes parse_card return null, whatever the other fields hold.
C8_IndependentUnlessOneRaises ==
    parse_status = "done" =>
        /\ Raises(card) => parsed = Null
        /\ (~Raises(card) /\ parsed /= Null) =>
               /\ parsed.pinyin = ExtractPinyin(card).value
               /\ parsed.hanzi = ExtractHanzi(card).value
               /\ parsed.meaning = ExtractMeaning(card)
               /\ parsed.added = ExtractAdded(card).value
        /\ (~Raises(card) /\ parsed = Null) =>
               /\ ExtractPinyin(card).value = <<>>
               /\ ExtractHanzi(card).value = <<>>
               /\ ExtractMeaning(card) = <<>>

\* parse_card returned null for a card whose date does not parse, although
\* its pinyin, hanzi and meaning are extracted without error and non-empty
C8_Witness ==
    /\ parse_status = "done"
    /\ parsed = Null
    /\ ExtractAdded(card).raised
    /\ ~ExtractPinyin(card).raised /\ ExtractPinyin(card).value /= <<>>
    /\ ~ExtractHanzi(card).raised /\ ExtractHanzi(card).value /= <<>>
    /\ ExtractMeaning(card) /= <<>>

\* the places, in increasing order, of the first n cards that parse_card
\* gives a record for
KeptPlaces(n) == { k \in 1..n : parse_card(cards[k]) /= Null }

\* C9: valid_cards is the subsequence, in order, of the records parse_card
\* gives for the cards gone through so far: the j-th record is the record of
\* the j-th card that has one; so there are no more records than cards, and
\* a card that raises or is discarded takes away its own record only; the
\* loop goes through every card before the file is opened.
C9_RecordsAreOrderedSubsequence ==
    w_status \in {"parsing", "writing", "done"} =>
        /\ Len(valid_cards) = Cardinality(KeptPlaces(w_i))
        /\ Len(valid_cards) <= Len(cards)
        /\ \A k \in KeptPlaces(w_i) :
               valid_cards[Cardinality(KeptPlaces(k))] = parse_card(cards[k])
        /\ w_status \in {"writing", "done"} => w_i = Len(cards)

\* the writer is done with three cards: the first raised or was discarded,
\* the other two gave two different records
C9_Witness ==
    /\ w_status = "done"
    /\ Len(cards) = 3
    /\ parse_card(cards[1]) = Null
    /\ Len(valid_cards) = 2
    /\ valid_cards[1] /= valid_cards[2]

\* C10: for N >= 1 valid records the file holds 5N - 1 written lines: for
\* the r-th record the lines 'Pinyin: ', 'Hanzi: ', 'Meaning: ', 'Added: ',
\* each with the record's value (empty or not) and a line break, and after
\* each record but the last the line '---'.
C10_FourLinesPerRecordSeparatorsBetween ==
    (w_status = "done" /\ Len(valid_cards) >= 1) =>
        LET n == Len(valid_cards)
            labels == <<"Pinyin: ", "Hanzi: ", "Meaning: ", "Added: ">>
            value(r, l) == CASE l = 1 -> valid_cards[r].pinyin
                             [] l = 2 -> valid_cards[r].hanzi
                             [] l = 3 -> valid_cards[r].meaning
                             [] l = 4 -> valid_cards[r].added
        IN  /\ out_file.exists
            /\ Len(out_file.content) = 5 * n - 1
            /\ \A r \in 1..n : \A l \in 1..4 :
                   out_file.content[5 * (r - 1) + l]
                       = <<labels[l]>> \o value(r, l) \o <<"\n">>
            /\ \A r \in 1..(n - 1) : out_file.content[5 * r] = <<"---", "\n">>
            /\ Cardinality({ c \in DOMAIN out_file.content :
                               out_file.content[c] = <<"---", "\n">> }) = n - 1

\* the writer is done with two records, the first with three empty values
C10_Witness ==
    /\ w_status = "done"
    /\ Len(valid_cards) = 2
    /\ valid_cards[1].pinyin = <<>>
    /\ valid_cards[1].hanzi = <<>>
    /\ valid_cards[1].added = <<>>
    /\ Len(out_file.content) = 9

(***************************************************************************)
(* Further properties of get_deck_id and get_cards.                        *)
(***************************************************************************)
\* a matching place before which, in page order and then in docs order, no
\* other place matches
IsFirstPlace(pi) ==
    /\ pi \in MatchingPlaces
    /\ \A qi \in MatchingPlaces :
           pi[1] < qi[1] \/ (pi[1] = qi[1] /\ pi[2] <= qi[2])

\* C15: get_deck_id returns the id of the first matching deck in scan order,
\* page order and then docs order within the page; once the page holding a
\* match has been answered it has returned and no request follows; no page
\* after the first matching page is ever requested.
C15_FirstMatchEndsTheScan ==
    /\ deck_status = "returned" =>
           /\ \E pi \in MatchingPlaces :
                  /\ IsFirstPlace(pi)
                  /\ deck_result = deckPages[pi[1]].docs[pi[2]].id
                  /\ Last(deck_fetched) = pi[1]
           /\ deck_last = "ok"
           /\ ~ ENABLED NextDeck
    /\ \A pi \in MatchingPlaces :
           /\ \A k \in DOMAIN deck_fetched : deck_fetched[k] <= pi[1]
           /\ Count(deck_fetched, pi[1]) >= 1 => deck_status = "returned"
           /\ deck_status = "running" => deck_url.bookmark + 1 <= pi[1]

\* get_deck_id returned the first of two matching decks of the first page
\* of a listing of two pages, the second page never asked for
C15_Witness ==
    /\ deck_status = "returned"
    /\ deck_fetched = <<1>>
    /\ Len(deckPages) = 2
    /\ {1} \X {1, 2} \subseteq MatchingPlaces
    /\ deck_result = deckPages[1].docs[1].id
    /\ deckPages[1].docs[2].id /= deck_result

\* a request to the cards listing, filtered by the deck, 100 cards a page
IsFilteredRequest(u) ==
    /\ u.path = "cards"
    /\ u.deckId = deck_id
    /\ u.limit = PageLimit

\* C16: every request get_cards sends, the first and every one that follows
\* a bookmark, goes to the cards listing and carries the deck-id filter of
\* the deck asked for and limit 100: so does the URL of the request being
\* made and so did every URL answered.
C16_EveryRequestCarriesDeckId ==
    /\ cards_status = "running" => IsFilteredRequest(cards_url)
    /\ \A k \in DOMAIN cards_urls : IsFilteredRequest(cards_urls[k])

\* C17: the retry budget is per request.  While an operation runs, its
\* attempt counter is the number of attempts already made of the current
\* request, whatever happened to the requests before: it is 0 when a request
\* is first sent.  An attempt that times out and is retried leaves the URL
\* as it was.  The operation has failed with the timeout error exactly when
\* the last three attempts were three read timeouts of one request; read
\* timeouts of earlier requests, two of them in a row included, do not count.
C17_RetryBudgetPerRequest ==
    [][ /\ deck_status' = "running" =>
              /\ deck_attempt' = deck_tries'
              /\ deck_attempt' < Retries
        /\ cards_status' = "running" =>
              /\ cards_attempt' = cards_tries'
              /\ cards_attempt' < Retries
        /\ (deck_status = "running" /\ deck_last' = "timeout")
              => deck_url' = deck_url
        /\ (cards_status = "running" /\ cards_last' = "timeout")
              => cards_url' = cards_url
        /\ deck_status' = "timeout_error" <=>
              /\ deck_last' = "timeout"
              /\ deck_tries' = Retries
              /\ deck_sleeps' = <<1, 2>>
        /\ cards_status' = "timeout_error" <=>
              /\ cards_last' = "timeout"
              /\ cards_tries' = Retries
              /\ cards_sleeps' = <<1, 2>>
      ]_vars

\* get_cards returned after four read timeouts: two of an earlier request
\* and two of the last one, each answered at its third attempt
C17_Witness ==
    /\ cards_status = "returned"
    /\ cards_retried
    /\ cards_tries = Retries
    /\ cards_sleeps = <<1, 2>>
    /\ Len(cards_fetched) >= 2

(***************************************************************************)
(* Further properties of parse_card.                                       *)
(***************************************************************************)
\* a V at position v that is a token of its own: no character other than
\* whitespace next to it
IsStandaloneV(s, v) ==
    /\ v \in DOMAIN s
    /\ s[v] = "V"
    /\ v = 1 \/ s[v - 1] \in Whitespace
    /\ v = Len(s) \/ s[v + 1] \in Whitespace

\* s from position i on without its standalone V tokens and the whitespace
\* around them
RECURSIVE WithoutStandaloneV(_, _)
WithoutStandaloneV(s, i) ==
    IF i > Len(s) THEN <<>>
    ELSE LET v == SkipSpace(s, i)
         IN  IF IsStandaloneV(s, v)
             THEN WithoutStandaloneV(s, SkipSpace(s, v + 1))
             ELSE <<s[i]>> \o WithoutStandaloneV(s, i + 1)

\* C19: the hanzi of a record is the value of the first fields entry whose
\* key is not 'name', without its standalone uppercase V tokens and the
\* whitespace around them, trimmed: a V that is part of a longer token is
\* kept and every other character is kept, in order.
C19_OnlyStandaloneVRemoved ==
    (parse_status = "done" /\ card \in HanziCards) =>
        /\ parsed /= Null
        /\ parsed.hanzi = Strip(WithoutStandaloneV(card.fields[1].value, 1))

(***************************************************************************)
(* Further properties of write_vocab_to_file.                              *)
(***************************************************************************)
\* the text of the file: what the f.write calls wrote, one after the other
RECURSIVE FileText(_)
FileText(chunks) ==
    IF chunks = <<>> THEN <<>> ELSE Head(chunks) \o FileText(Tail(chunks))

\* the pieces of seq between the elements equal to sep
RECURSIVE SplitOn(_, _)
SplitOn(seq, sep) ==
    IF \A k \in DOMAIN seq : seq[k] /= sep THEN <<seq>>
    ELSE LET k == CHOOSE j \in DOMAIN seq :
                      /\ seq[j] = sep
                      /\ \A h \in 1..(j - 1) : seq[h] /= sep
         IN  <<SubSeq(seq, 1, k - 1)>> \o SplitOn(SubSeq(seq, k + 1, Len(seq)), sep)

\* the lines of a text, a final line break ending the last line
FileLines(text) ==
    LET pieces == SplitOn(text, "\n")
    IN  IF Last(pieces) = <<>> THEN SubSeq(pieces, 1, Len(pieces) - 1) ELSE pieces

\* the blocks a reader gets by splitting the file on its '---' lines
FileBlocks(content) == SplitOn(FileLines(FileText(content)), <<"---">>)

\* the four labeled lines of a record, without their line breaks
RecordLines(record) ==
    << <<"Pinyin: ">> \o record.pinyin, <<"Hanzi: ">> \o record.hanzi,
       <<"Meaning: ">> \o record.meaning, <<"Added: ">> \o record.added >>

\* C11: round trip.  When the writer is done with N >= 1 records, whatever
\* values the parser produced for them, values with line breaks or a '---'
\* line included, splitting the file on its '---' lines yields exactly N
\* blocks, and the r-th block is the four labeled lines of the r-th record,
\* from which its four values are read back.
C11_SplitYieldsTheRecords ==
    (w_status = "done" /\ Len(valid_cards) >= 1) =>
        LET blocks == FileBlocks(out_file.content)
        IN  /\ Len(blocks) = Len(valid_cards)
            /\ \A r \in DOMAIN valid_cards :
                   blocks[r] = RecordLines(valid_cards[r])

(***************************************************************************)
(* Properties of a whole run.                                              *)
(***************************************************************************)
\* C12: when get_deck_id or get_cards has raised (an HTTP error, a network
\* error, the timeout error), the output file is as it was before the run,
\* neither created, truncated nor written, and it stays so to the end of
\* the run; the file differs from what it was only once both get_deck_id
\* and get_cards have returned and every card has been parsed.
C12_FetchFailureLeavesFileAlone ==
    /\ (deck_status \in RaisedStatuses \/ cards_status \in RaisedStatuses) =>
           /\ out_file = file_before
           /\ w_status = "off"
    /\ (out_file /= file_before \/ w_status \in {"writing", "done", "failed"}) =>
           /\ deck_status = "returned"
           /\ cards_status = "returned"
           /\ w_i = Len(cards)
           /\ cards /= <<>>

\* a run ended after get_cards raised the timeout error at its second
\* request: the file an earlier run left is still there, as it was
C12_Witness ==
    /\ main_pc = "ended"
    /\ printed = [msg |-> "Failed to fetch cards after retries: Read operation timed out"]
    /\ Len(cards) = 1
    /\ file_before = [exists |-> TRUE, content |-> OldContent]
    /\ out_file = file_before

\* what the writer writes for these records when nothing fails
RECURSIVE Serialization(_)
Serialization(records) ==
    IF records = <<>> THEN <<>>
    ELSE LET r == Head(records)
         IN  <<FieldLine(1, r), FieldLine(2, r), FieldLine(3, r), FieldLine(4, r)>>
                 \o (IF Tail(records) = <<>> THEN <<>> ELSE <<SeparatorLine>>)
                 \o Serialization(Tail(records))

\* C13: a failure during the write step never leaves a partial or truncated
\* file: once the writer has failed, the output file holds either exactly
\* what it held before the run or the complete serialization of all valid
\* records.
C13_WriteFailureLeavesNoPartialFile ==
    w_status = "failed" =>
        \/ out_file = file_before
        \/ /\ out_file.exists
           /\ out_file.content = Serialization(valid_cards)

\* main's except clause printed the error of the operation that raised
PrintedTheError ==
    /\ deck_status \in RaisedStatuses => printed = deck_raised
    /\ cards_status \in RaisedStatuses => printed = cards_raised
    /\ w_status = "failed" => printed /= NoError

\* C14, as claimed: every fatal error, the configuration error of a missing
\* API key included, is caught at the top level and printed, and the
\* process then ends with exit status 0.
C14_EveryFatalErrorCaughtExitZero ==
    main_pc = "ended" =>
        /\ exit_code = Exit(0)
        /\ ~ api_key => printed /= NoError
        /\ PrintedTheError

\* C14, amended: an error raised inside main (by get_deck_id, get_cards or
\* the writer) is caught by main's except clause and printed, and the
\* process ends with status 0, as does a run without error; a missing API
\* key raises at import, before main and outside its try: nothing catches
\* or prints it in main, no request is made and the process ends with
\* status 1.  The 'Deck not found' error is never the one printed.
C14_CaughtInsideMainOnly ==
    /\ (main_pc = "ended" /\ api_key) =>
           /\ exit_code = Exit(0)
           /\ PrintedTheError
    /\ (main_pc = "ended" /\ ~ api_key) =>
           /\ exit_code = Exit(1)
           /\ printed = NoError
           /\ deck_status = "off" /\ cards_status = "off" /\ w_status = "off"
    /\ main_pc /= "ended" =>
           /\ exit_code = NoExit
           /\ printed = NoError
           /\ (\/ deck_status \in RaisedStatuses
               \/ cards_status \in RaisedStatuses
               \/ w_status = "failed") => ENABLED Main_Except
    /\ printed.msg /= "Deck not found"

\* a run ended with status 0 after main printed the HTTP error 500 that
\* get_deck_id raised
C14_Witness ==
    /\ main_pc = "ended"
    /\ api_key
    /\ printed = [msg |-> "Failed to fetch decks", status |-> 500]
    /\ exit_code = Exit(0)

\* C18: when get_cards returned an empty list the writer is never called and
\* the output file stays as it was before the run, to the end of the run,
\* which ends with status 0; when the list is not empty and every card
\* parses to null, the writer, once done, has left the output file existing
\* and empty, whatever it held before.
C18_EmptyListSkipsWriterAllNullEmptiesFile ==
    /\ (cards_status = "returned" /\ cards = <<>>) =>
           /\ w_status = "off"
           /\ out_file = file_before
           /\ main_pc \in {"cards", "ended"}
           /\ main_pc = "ended" => exit_code = Exit(0) /\ printed = NoError
    /\ (w_status = "done" /\ \A k \in DOMAIN cards : parse_card(cards[k]) = Null) =>
           /\ cards /= <<>>
           /\ valid_cards = <<>>
           /\ out_file = [exists |-> TRUE, content |-> <<>>]

\* a run ended after the writer was given two cards that both parse to
\* null: the file an earlier run left is now empty
C18_Witness ==
    /\ main_pc = "ended"
    /\ w_status = "done"
    /\ Len(cards) = 2
    /\ \A k \in DOMAIN cards : parse_card(cards[k]) = Null
    /\ file_before = [exists |-> TRUE, content |-> OldContent]
    /\ out_file = [exists |-> TRUE, content |-> <<>>]

\* C20: at every point of a run at most one of the two operations is making
\* requests and at most one HTTP client is open.  The client of an operation
\* is open exactly while the operation runs: it is closed when get_deck_id
\* or get_cards has returned or raised, whichever way.  get_cards is called,
\* and opens its client, only once get_deck_id has returned and its client
\* is closed; no client is open when the run has ended.
C20_OneClientOpenAtATime ==
    /\ ~ (deck_client = "open" /\ cards_client = "open")
    /\ ~ (deck_status = "running" /\ cards_status = "running")
    /\ deck_client = "open" <=> deck_status = "running"
    /\ cards_client = "open" <=> cards_status = "running"
    /\ deck_status \in RaisedStatuses \cup {"returned"} => deck_client = "closed"
    /\ cards_status \in RaisedStatuses \cup {"returned"} => cards_client = "closed"
    /\ cards_status /= "off" =>
           /\ deck_status = "returned"
           /\ deck_client = "closed"
    /\ main_pc = "ended" =>
           /\ deck_client = "closed"
           /\ cards_client = "closed"

\* get_cards raised the timeout error at its second request, after
\* get_deck_id had returned from its second page: both clients are closed
C20_Witness ==
    /\ deck_status = "returned"
    /\ Len(deck_fetched) = 2
    /\ cards_status = "timeout_error"
    /\ Len(cards_fetched) = 1
    /\ deck_client = "closed"
    /\ cards_client = "closed"

=============================================================================
